---- MODULE Spec2Model ----
(***************************************************************************)
(* log4go: the asynchronous handler pipeline (handlers.go) and the         *)
(* template formatter (formatters.go).                                     *)
(*                                                                         *)
(* Part I models one StreamHandler object, its committer goroutine, the    *)
(* producer goroutines calling Handle and the owning goroutine calling     *)
(* Shutdown / SetFormatter.  Channel operations are the atomic steps; the  *)
(* StreamShutdown flag is read and written with sequentially consistent    *)
(* memory.  A WatchedFileHandler is the same StreamHandler object plus the *)
(* file identity bookkeeping, with the file at the path replaceable by the *)
(* environment.                                                            *)
(***************************************************************************)
EXTENDS Integers, Sequences, FiniteSets, TLC

\* ---------------------------------------------------------------- bounds
NumProducers == 2
MaxRecords == 3
\* capacity of CommitChannel; NewStreamHandler makes it 100 (line 34), the model
\* runs the same channel at this smaller capacity
QueueCap == 2
MaxShutdownCalls == 2
MaxFiles == 2

VARIABLES
    \* StreamHandler fields
    Writer,          \* h.Writer: the open handle, named by the file it was opened on
    StreamFormatter, \* h.StreamFormatter
    StreamShutdown,  \* h.StreamShutdown
    CommitChannel,   \* buffered contents of h.CommitChannel
    commitClosed,    \* h.CommitChannel has been closed
    stopClosed,      \* h.CommitterStop has been closed
    \* committer goroutine
    cpc,             \* position of the committer
    crec,            \* the record it holds (rec, then msg)
    \* Handle callers
    sending,         \* records of the Handle calls standing at the send of line 76
    panicked,        \* ids of the Handle calls whose send panicked
    nextId,          \* next record to be created by the logger
    \* Shutdown caller
    spc,             \* position of the owner inside Shutdown
    shutCalls,       \* Shutdown calls started
    shutReturns,     \* Shutdown calls returned
    \* WatchedFileHandler fields and the file system
    watched,         \* the handler was built by NewWatchedFileHandler
    fp,              \* h.fp
    devino,          \* (h.dev, h.inode)
    pathFile,        \* identity of the file now at h.filename
    closedFiles,     \* handles that have been synced and closed
    committers,      \* committer goroutines started
    orphans,         \* StreamHandler objects the WatchedFileHandler no longer points to
    \* observation
    enqLog,          \* records in the order they entered CommitChannel
    sink,            \* lines written, in order: [id, file]
    attempts,        \* calls of h.Writer.Write, in order: [id, ok]
    retNil,          \* ids whose Handle call returned nil
    preIds,          \* ids whose Handle call returned before the first Shutdown call
    lateIds,         \* ids whose Handle call started after a Shutdown call returned
    \* TemplateFormatter fields
    formatString,    \* f.formatString
    formatTokens,    \* f.formatTokens
    levelColoring,   \* f.levelColoring
    \* observation of the formatter
    compiledFrom,    \* the template formatTokens was compiled from
    last             \* the last call on the formatter, its arguments and results

chanVars == <<CommitChannel, commitClosed, stopClosed>>
fieldVars == <<Writer, StreamFormatter, StreamShutdown>>
committerVars == <<cpc, crec>>
producerVars == <<sending, panicked, nextId>>
ownerVars == <<spc, shutCalls, shutReturns>>
fileVars == <<watched, fp, devino, pathFile, closedFiles, committers, orphans>>
obsVars == <<enqLog, sink, attempts, retNil, preIds, lateIds>>

hvars == <<chanVars, fieldVars, committerVars, producerVars, ownerVars, fileVars,
           obsVars>>

fmtVars == <<formatString, formatTokens, levelColoring, compiledFrom, last>>

vars == <<hvars, fmtVars>>

\* ------------------------------------------------------------ data
\* goroutines calling Handle are told apart only by the record they carry;
\* a goroutine is free when it is neither blocked in a send nor dead of a panic
FreeProducer == Cardinality(sending) + Cardinality(panicked) < NumProducers

\* Level: NOTSET is the zero value of Level
NOTSET == "NOTSET"
INFO == "INFO"
Levels == {NOTSET, INFO}

Nil == "nil"
TF == "TemplateFormatter"

\* the abstract io.Writer handed to NewStreamHandler
StreamW == <<0, 0>>
\* (device, inode) of the i-th file created at the path
FileId(i) == <<1, i>>

\* the zero Record, received from a closed channel
ZeroRecord == [id |-> 0, level |-> NOTSET]

\* formatters.go: Format fails with ErrorNotSet on a NOTSET record
FormatFails(rec) == rec.level = NOTSET

\* ------------------------------------------------------------ construction
NewStreamHandler(w) ==
    /\ Writer = w
    /\ StreamFormatter = Nil
    /\ StreamShutdown = FALSE
    /\ CommitChannel = <<>>
    /\ commitClosed = FALSE
    /\ stopClosed = FALSE
    /\ cpc = "select"
    /\ crec = ZeroRecord

Observers ==
    /\ sending = {}
    /\ panicked = {}
    /\ nextId = 1
    /\ spc = "idle"
    /\ shutCalls = 0
    /\ shutReturns = 0
    /\ enqLog = <<>>
    /\ attempts = <<>>
    /\ closedFiles = {}
    /\ committers = 1
    /\ orphans = <<>>
    /\ retNil = {}
    /\ preIds = {}
    /\ lateIds = {}

StreamHandlerInit ==
    /\ NewStreamHandler(StreamW)
    /\ watched = FALSE
    /\ fp = Nil
    /\ devino = <<0, 0>>
    /\ pathFile = <<0, 0>>
    /\ sink = <<>>
    /\ Observers

\* lines 195-218: open never assigns h.fp; the handler it builds gets the new
\* file as its Writer, and the identity of the file at the path is captured
WatchedFileHandler_open ==
    /\ NewStreamHandler(pathFile)
    /\ fp = Nil
    /\ devino = pathFile

\* lines 149-166: open, then the optional "START LOGS" line written directly
WatchedFileHandlerInit ==
    /\ pathFile = FileId(1)
    /\ WatchedFileHandler_open
    /\ watched = TRUE
    /\ \E writeStartHeader \in BOOLEAN :
          sink = IF writeStartHeader THEN <<[id |-> 0, file |-> Writer]>> ELSE <<>>
    /\ Observers

\* lines 39 and 96-121: the committer runs in a goroutine of its own with no
\* recover, so a panic in it ends the whole process
Running == cpc # "panic"

\* ------------------------------------------------------------ channels
\* ch <- v on a buffered channel: v joins the tail of the buffer
ChanSendAtHead(q, v) == <<v>> \o q
ChanSend(q, v) == Append(q, v)

\* a send on a buffered channel proceeds while the buffer has room
ChanHasRoomAlways == TRUE
ChanHasRoom == Len(CommitChannel) < QueueCap

\* ------------------------------------------------------------ Handle
\* line 75: if !h.StreamShutdown
HandleAcceptsAlways == TRUE
HandleAccepts == ~StreamShutdown

\* line 75: the flag is read; line 76 is reached only when it was false
HandleCall(lvl) ==
    /\ Running
    /\ FreeProducer
    /\ nextId <= MaxRecords
    /\ LET rec == [id |-> nextId, level |-> lvl] IN
       /\ nextId' = nextId + 1
       /\ lateIds' = IF shutReturns > 0 THEN lateIds \cup {rec.id} ELSE lateIds
       /\ IF HandleAccepts
          THEN /\ sending' = sending \cup {rec}
               /\ UNCHANGED retNil
          ELSE /\ retNil' = retNil \cup {rec.id}
               /\ UNCHANGED sending
    /\ UNCHANGED fmtVars
    /\ UNCHANGED <<panicked, chanVars, fieldVars, committerVars, ownerVars, fileVars,
                   enqLog, sink, attempts, preIds>>

\* line 76: h.CommitChannel <- *rec, blocking while the buffer is full
HandleSend(rec) ==
    /\ Running
    /\ rec \in sending
    /\ ~commitClosed
    /\ ChanHasRoom
    /\ CommitChannel' = ChanSend(CommitChannel, rec)
    /\ enqLog' = Append(enqLog, rec)
    /\ retNil' = retNil \cup {rec.id}
    /\ sending' = sending \ {rec}
    /\ UNCHANGED fmtVars
    /\ UNCHANGED <<panicked, commitClosed, stopClosed, fieldVars, committerVars,
                   nextId, ownerVars, fileVars, sink, attempts, preIds, lateIds>>

\* a send panics when, and only when, its channel has been closed
SendPanicsAnytime == TRUE
SendPanics == commitClosed

\* line 76 on a closed channel: the send panics in the caller's goroutine
HandlePanic(rec) ==
    /\ Running
    /\ rec \in sending
    /\ SendPanics
    /\ sending' = sending \ {rec}
    /\ panicked' = panicked \cup {rec.id}
    /\ UNCHANGED fmtVars
    /\ UNCHANGED <<chanVars, fieldVars, committerVars, nextId, ownerVars,
                   fileVars, obsVars>>

\* ------------------------------------------------------------ SetFormatter
SetFormatter(formatter) ==
    /\ Running
    /\ StreamFormatter # formatter
    /\ StreamFormatter' = formatter
    /\ UNCHANGED fmtVars
    /\ UNCHANGED <<Writer, StreamShutdown, chanVars, committerVars, producerVars,
                   ownerVars, fileVars, obsVars>>

\* ------------------------------------------------------------ Shutdown
\* line 83: if !h.StreamShutdown
ShutdownNeededAlways == TRUE
ShutdownNeeded == ~StreamShutdown

\* lines 83-84, up to the send of line 85; a call that finds the flag set returns
ShutdownCall ==
    /\ Running
    /\ spc = "idle"
    /\ shutCalls < MaxShutdownCalls
    /\ shutCalls' = shutCalls + 1
    /\ preIds' = IF shutCalls = 0 THEN retNil ELSE preIds
    /\ IF ShutdownNeeded
       THEN /\ StreamShutdown' = TRUE
            /\ spc' = "send"
            /\ UNCHANGED shutReturns
       ELSE /\ shutReturns' = shutReturns + 1
            /\ UNCHANGED <<StreamShutdown, spc>>
    /\ UNCHANGED fmtVars
    /\ UNCHANGED <<Writer, StreamFormatter, chanVars, committerVars, producerVars,
                   fileVars, enqLog, sink, attempts, retNil, lateIds>>

\* line 87: close(h.CommitterStop); closing a closed channel panics
ShutdownCloseStop ==
    /\ Running
    /\ spc = "closeStop"
    /\ IF stopClosed
       THEN spc' = "panic" /\ UNCHANGED stopClosed
       ELSE spc' = "closeCommit" /\ stopClosed' = TRUE
    /\ UNCHANGED fmtVars
    /\ UNCHANGED <<CommitChannel, commitClosed, fieldVars, committerVars,
                   producerVars, shutCalls, shutReturns, fileVars, obsVars>>

\* lines 88-90: close(h.CommitChannel), and Shutdown returns
ShutdownCloseCommit ==
    /\ Running
    /\ spc = "closeCommit"
    /\ IF commitClosed
       THEN spc' = "panic" /\ UNCHANGED <<commitClosed, shutReturns>>
       ELSE /\ spc' = "idle"
            /\ commitClosed' = TRUE
            /\ shutReturns' = shutReturns + 1
    /\ UNCHANGED fmtVars
    /\ UNCHANGED <<CommitChannel, stopClosed, fieldVars, committerVars,
                   producerVars, shutCalls, fileVars, obsVars>>

\* ------------------------------------------------------------ committer
\* line 92: StreamHandler.onPreWrite does nothing.  committer is a method of
\* *StreamHandler, so its call h.onPreWrite() is bound to this method whatever
\* struct embeds the StreamHandler.
StreamHandler_onPreWrite ==
    UNCHANGED <<Writer, fp, devino, closedFiles, committers, orphans>>

\* line 99: case rec := <-h.CommitChannel, a buffered record being ready
CommitterRecv ==
    /\ Running
    /\ cpc = "select"
    /\ Len(CommitChannel) > 0
    /\ crec' = Head(CommitChannel)
    /\ CommitChannel' = Tail(CommitChannel)
    /\ cpc' = "format"
    /\ UNCHANGED fmtVars
    /\ UNCHANGED <<commitClosed, stopClosed, fieldVars, producerVars,
                   ownerVars, fileVars, obsVars>>

\* line 99 on a closed and drained channel: the receive yields the zero Record
CommitterRecvClosed ==
    /\ Running
    /\ cpc = "select"
    /\ commitClosed
    /\ Len(CommitChannel) = 0
    /\ crec' = ZeroRecord
    /\ cpc' = "format"
    /\ UNCHANGED fmtVars
    /\ UNCHANGED <<chanVars, fieldVars, producerVars, ownerVars, fileVars, obsVars>>

\* lines 100-107: h.Formatter().Format(&rec); a nil formatter panics, an error
\* continues the loop
CommitterFormat ==
    /\ Running
    /\ cpc = "format"
    /\ cpc' = IF StreamFormatter = Nil THEN "panic"
              ELSE IF FormatFails(crec) THEN "select"
              ELSE "write"
    /\ crec' = IF cpc' = "select" THEN ZeroRecord ELSE crec
    /\ UNCHANGED fmtVars
    /\ UNCHANGED <<chanVars, fieldVars, producerVars, ownerVars, fileVars,
                   obsVars>>

\* lines 109-115: the hook, then h.Writer.Write(msg) returning no error; a
\* Write on a nil *os.File returns an error
CommitterWrite ==
    /\ Running
    /\ cpc = "write"
    /\ StreamHandler_onPreWrite
    /\ Writer' # Nil
    /\ sink' = Append(sink, [id |-> crec.id, file |-> Writer'])
    /\ attempts' = Append(attempts, [id |-> crec.id, ok |-> TRUE])
    /\ cpc' = "select"
    /\ crec' = ZeroRecord
    /\ UNCHANGED fmtVars
    /\ UNCHANGED <<chanVars, StreamFormatter, StreamShutdown, producerVars,
                   ownerVars, watched, pathFile, enqLog, retNil, preIds, lateIds>>

\* lines 113-115: after a write error the message is printed to os.Stderr and
\* the select statement ends, so the for loop goes round
AfterWriteErrorRetry == "write"
AfterWriteError == "select"

\* lines 109-115 with h.Writer.Write(msg) returning an error: nothing reaches
\* the file
CommitterWriteFails ==
    /\ Running
    /\ cpc = "write"
    /\ StreamHandler_onPreWrite
    /\ attempts' = Append(attempts, [id |-> crec.id, ok |-> FALSE])
    /\ cpc' = AfterWriteError
    /\ crec' = IF cpc' = "select" THEN ZeroRecord ELSE crec
    /\ UNCHANGED fmtVars
    /\ UNCHANGED <<chanVars, StreamFormatter, StreamShutdown, producerVars,
                   ownerVars, watched, pathFile, enqLog, sink, retNil, preIds,
                   lateIds>>

\* line 117: case <-h.CommitterStop is ready while Shutdown waits in its send
StopCaseNeverReady == FALSE
StopCaseReady == spc = "send" /\ ~stopClosed

\* lines 117 and 85: the unbuffered handshake; both sides move on
CommitterStop ==
    /\ Running
    /\ cpc = "select"
    /\ StopCaseReady
    /\ cpc' = "break"
    /\ spc' = "closeStop"
    /\ UNCHANGED fmtVars
    /\ UNCHANGED <<crec, chanVars, fieldVars, producerVars, shutCalls, shutReturns,
                   fileVars, obsVars>>

\* line 117 on the closed CommitterStop: the receive is always ready
CommitterStopClosed ==
    /\ Running
    /\ cpc = "select"
    /\ stopClosed
    /\ cpc' = "break"
    /\ UNCHANGED fmtVars
    /\ UNCHANGED <<crec, chanVars, fieldVars, producerVars, ownerVars, fileVars,
                   obsVars>>

\* line 118: break leaves the select statement, and the for loop goes round
CommitterBreak ==
    /\ Running
    /\ cpc = "break"
    /\ cpc' = "select"
    /\ UNCHANGED fmtVars
    /\ UNCHANGED <<crec, chanVars, fieldVars, producerVars, ownerVars, fileVars,
                   obsVars>>

Committer ==
    \/ CommitterRecv
    \/ CommitterRecvClosed
    \/ CommitterFormat
    \/ CommitterWrite
    \/ CommitterStop
    \/ CommitterStopClosed
    \/ CommitterBreak

Shutdown ==
    \/ ShutdownCall
    \/ ShutdownCloseStop
    \/ ShutdownCloseCommit

\* the file at h.filename is replaced by a new file (rotation by the environment)
MoveFile ==
    /\ watched
    /\ \E i \in 1..(MaxFiles - 1) :
          /\ pathFile = FileId(i)
          /\ pathFile' = FileId(i + 1)
    /\ UNCHANGED fmtVars
    /\ UNCHANGED <<watched, fp, devino, closedFiles, committers, orphans, chanVars,
                   fieldVars, committerVars, producerVars, ownerVars, obsVars>>

\* ------------------------------------------------------------ reopen
\* lines 178-184: the identity of the file at the path differs from the stored one
WatchedFileHandler_fileHasMoved == devino # pathFile

\* lines 169-176: WatchedFileHandler.onPreWrite, called on the handler between
\* Shutdown calls (a call in progress holds the StreamHandler it began on).
\*   close (186-193) syncs and closes h.fp and clears h.fp and h.Writer, but
\*     only when h.fp is not nil;
\*   open (195-218), when os.OpenFile succeeds, builds a StreamHandler with
\*     NewStreamHandler(h.fp), which starts a committer of its own, puts it in
\*     place of the embedded one, sets its Writer to the new file and captures
\*     the identity of the file at the path; its error is dropped at line 173;
\*   line 174 then sets h.Writer to h.fp.
\* The StreamHandler left behind keeps its queue, its committer and the Handle
\* calls blocked on it; what they go on to do is not followed.
WatchedFileHandler_onPreWrite(openOk) ==
    /\ Running
    /\ watched
    /\ spc = "idle"
    /\ IF WatchedFileHandler_fileHasMoved
       THEN /\ closedFiles' = IF fp # Nil THEN closedFiles \cup {fp} ELSE closedFiles
            /\ fp' = Nil
            /\ Writer' = fp'
            /\ IF openOk
               THEN /\ orphans' = Append(orphans,
                                         [Writer |-> IF fp # Nil THEN Nil ELSE Writer,
                                          StreamFormatter |-> StreamFormatter,
                                          StreamShutdown |-> StreamShutdown,
                                          CommitChannel |-> CommitChannel,
                                          commitClosed |-> commitClosed,
                                          stopClosed |-> stopClosed,
                                          cpc |-> cpc,
                                          crec |-> crec,
                                          sending |-> sending])
                    /\ StreamFormatter' = Nil
                    /\ StreamShutdown' = FALSE
                    /\ CommitChannel' = <<>>
                    /\ commitClosed' = FALSE
                    /\ stopClosed' = FALSE
                    /\ cpc' = "select"
                    /\ crec' = ZeroRecord
                    /\ sending' = {}
                    /\ committers' = committers + 1
                    /\ devino' = pathFile
               ELSE UNCHANGED <<orphans, StreamFormatter, StreamShutdown, chanVars,
                                committerVars, sending, committers, devino>>
       ELSE UNCHANGED <<closedFiles, fp, Writer, orphans, StreamFormatter,
                        StreamShutdown, chanVars, committerVars, sending, committers,
                        devino>>
    /\ UNCHANGED fmtVars
    /\ UNCHANGED <<watched, pathFile, panicked, nextId, ownerVars, obsVars>>

(***************************************************************************)
(* Part II: TemplateFormatter.  Strings are sequences of one-character     *)
(* strings; positions are 1-based where Go's are 0-based.                  *)
(***************************************************************************)

\* ------------------------------------------------------------ strings
sTime == <<"t", "i", "m", "e">>
sTimems == <<"t", "i", "m", "e", "m", "s">>
sName == <<"n", "a", "m", "e">>
sBasename == <<"b", "a", "s", "e", "n", "a", "m", "e">>
sLevel == <<"l", "e", "v", "e", "l">>
sMessage == <<"m", "e", "s", "s", "a", "g", "e">>
sBogus == <<"b", "o", "g", "u", "s">>
sRoot == <<"r", "o", "o", "t">>

Spaces(n) == [i \in 1..n |-> " "]

Min(a, b) == IF a < b THEN a ELSE b

\* ------------------------------------------------------------ tokens
tfTime == 0
tfTimeMilliseconds == 1
tfName == 2
tfBaseName == 3
tfLevel == 4
tfMessage == 5
tfFieldWidth == 256
tfFieldWidthMask == 65280
tfFieldWidthShift == 8
tfAlignRight == 65536

tokenToValue ==
    (sTime :> tfTime) @@ (sTimems :> tfTimeMilliseconds) @@ (sName :> tfName)
    @@ (sBasename :> tfBaseName) @@ (sLevel :> tfLevel) @@ (sMessage :> tfMessage)

\* an element of []interface{}: a string or an int
StrTok(s) == [kind |-> "string", s |-> s, v |-> 0]
IntTok(v) == [kind |-> "int", s |-> <<>>, v |-> v]

\* ------------------------------------------------------------ int operators
RECURSIVE Pow2(_)
Pow2(n) == IF n = 0 THEN 1 ELSE 2 * Pow2(n - 1)

ShiftLeft(a, n) == a * Pow2(n)
ShiftRight(a, n) == a \div Pow2(n)

RECURSIVE BitAnd(_, _)
BitAnd(a, b) ==
    IF a = 0 \/ b = 0 THEN 0
    ELSE (a % 2) * (b % 2) + 2 * BitAnd(a \div 2, b \div 2)

\* ------------------------------------------------------------ SetFormat
IsDigit(c) == c \in {"0", "1", "2", "3", "4", "5", "6", "7", "8", "9"}

DigitVal(c) ==
    CASE c = "0" -> 0 [] c = "1" -> 1 [] c = "2" -> 2 [] c = "3" -> 3 [] c = "4" -> 4
      [] c = "5" -> 5 [] c = "6" -> 6 [] c = "7" -> 7 [] c = "8" -> 8 [] c = "9" -> 9

\* strconv.Atoi on a run of digits
RECURSIVE Atoi(_)
Atoi(ds) ==
    IF ds = <<>> THEN 0
    ELSE Atoi(SubSeq(ds, 1, Len(ds) - 1)) * 10 + DigitVal(ds[Len(ds)])

\* position of the first "}" at or after i, 0 when there is none
RECURSIVE NextClose(_, _)
NextClose(t, i) ==
    IF i > Len(t) THEN 0
    ELSE IF t[i] = "}" THEN i
    ELSE NextClose(t, i + 1)

\* templatePtn \{[^}]+\} : the successive leftmost matches from position from on,
\* each as <<first, last>>
RECURSIVE FindAllStringIndex(_, _)
FindAllStringIndex(t, from) ==
    IF from > Len(t) THEN <<>>
    ELSE IF /\ t[from] = "{"
            /\ from + 1 <= Len(t)
            /\ t[from + 1] # "}"
            /\ NextClose(t, from + 1) # 0
         THEN <<<<from, NextClose(t, from + 1)>>>>
                 \o FindAllStringIndex(t, NextClose(t, from + 1) + 1)
         ELSE FindAllStringIndex(t, from + 1)

\* ([<>])(\d+) up to the closing brace
IsAlignWidth(rest) ==
    /\ Len(rest) >= 2
    /\ rest[1] \in {"<", ">"}
    /\ \A k \in 2..Len(rest) : IsDigit(rest[k])

\* templateSpecPtn ^\{([^}]+?)(([<>])(\d+))?\}$ on one match of templatePtn:
\* the lazy group 1 is the shortest prefix after which the rest is an
\* alignment and a width, or else everything between the braces
FindStringSubmatch(item) ==
    LET body == SubSeq(item, 2, Len(item) - 1)
        fits(k) == IsAlignWidth(SubSeq(body, k + 1, Len(body)))
        n == IF \E k \in 1..Len(body) : fits(k)
             THEN CHOOSE k \in 1..Len(body) : fits(k) /\ \A j \in 1..(k - 1) : ~fits(j)
             ELSE Len(body)
        rest == SubSeq(body, n + 1, Len(body))
    IN  [token |-> SubSeq(body, 1, n),
         alignment |-> IF rest = <<>> THEN <<>> ELSE <<rest[1]>>,
         width |-> IF rest = <<>> THEN <<>> ELSE Tail(rest)]

\* line 192: tfFieldWidth+(w-1)<<tfFieldWidthShift, where << binds tighter than +
WidthTokenSumShifted(w) == ShiftLeft(tfFieldWidth + (w - 1), tfFieldWidthShift)
WidthToken(w) == tfFieldWidth + ShiftLeft(w - 1, tfFieldWidthShift)

\* lines 186-197: the tokens of the alignment and width of one span
WidthTokens(alignment, width) ==
    IF Len(alignment) > 0 /\ Len(width) > 0 /\ Atoi(width) > 0
    THEN <<IntTok(WidthToken(Min(Atoi(width), 254)))>>
            \o (IF alignment = <<">">> THEN <<IntTok(tfAlignRight)>> ELSE <<>>)
    ELSE <<>>

\* lines 172-205: the loop over the matches; lastEnd is the position of the
\* last character consumed
RECURSIVE CompileTags(_, _, _, _)
CompileTags(template, m, lastEnd, tokens) ==
    IF m = <<>> THEN [err |-> "nil", tokens |-> tokens]
    ELSE LET start == m[1][1]
             end == m[1][2]
             before == IF start > lastEnd + 1
                       THEN <<StrTok(SubSeq(template, lastEnd + 1, start - 1))>>
                       ELSE <<>>
             spec == FindStringSubmatch(SubSeq(template, start, end))
         IN  IF spec.token \notin DOMAIN tokenToValue
             THEN [err |-> "unknown format template token", tokens |-> <<>>]
             ELSE CompileTags(template, Tail(m), end,
                              tokens \o before \o WidthTokens(spec.alignment, spec.width)
                                     \o <<IntTok(tokenToValue[spec.token])>>)

\* lines 164-205: the token list of a template, or the error SetFormat returns
CompileAnyMatches(template) ==
    CompileTags(template, FindAllStringIndex(template, 1), 0, <<>>)
Compile(template) ==
    IF Len(FindAllStringIndex(template, 1)) = 0
    THEN [err |-> "invalid format template string", tokens |-> <<>>]
    ELSE CompileTags(template, FindAllStringIndex(template, 1), 0, <<>>)

\* ------------------------------------------------------------ Format
ERROR == "ERROR"
DEBUG == "DEBUG"
FmtLevels == {NOTSET, DEBUG, ERROR}

\* LevelName: the display name of a level
LevelName(l) ==
    CASE l = ERROR -> <<"E", "R", "R", "O", "R">>
      [] l = DEBUG -> <<"D", "E", "B", "U", "G">>
      [] l = INFO -> <<"I", "N", "F", "O">>
      [] OTHER -> <<"N", "O", "T", "S", "E", "T">>

\* the color package's escape codes and colorReset, each one opaque element
ColorRed == <<"ESC[red">>
ColorFaint == <<"ESC[faint">>
colorReset == <<"ESC[0m">>

\* a map[Level]string, as the string a lookup yields ("" for a missing key)
NilColoring == [l \in FmtLevels |-> <<>>]
defaultLevelColoring ==
    [l \in FmtLevels |-> IF l = ERROR THEN ColorRed
                         ELSE IF l = DEBUG THEN ColorFaint
                         ELSE <<>>]

defaultProcessMessage(m, c) == m

DigitChar(d) ==
    CASE d = 0 -> "0" [] d = 1 -> "1" [] d = 2 -> "2" [] d = 3 -> "3" [] d = 4 -> "4"
      [] d = 5 -> "5" [] d = 6 -> "6" [] d = 7 -> "7" [] d = 8 -> "8" [] d = 9 -> "9"

\* %d
RECURSIVE DecStr(_)
DecStr(n) ==
    IF n < 10 THEN <<DigitChar(n)>>
    ELSE DecStr(n \div 10) \o <<DigitChar(n % 10)>>

\* %4d and %02d, %03d: padding on the left with c up to width
PadLeft(s, width, c) ==
    IF Len(s) >= width THEN s
    ELSE [i \in 1..(width - Len(s)) |-> c] \o s

\* lines 308-315
formatTime(t, milliseconds) ==
    PadLeft(DecStr(t.Year), 4, " ") \o <<"-">> \o PadLeft(DecStr(t.Month), 2, "0")
      \o <<"-">> \o PadLeft(DecStr(t.Day), 2, "0") \o <<" ">>
      \o PadLeft(DecStr(t.Hour), 2, "0") \o <<":">> \o PadLeft(DecStr(t.Minute), 2, "0")
      \o <<":">> \o PadLeft(DecStr(t.Second), 2, "0")
      \o (IF milliseconds
          THEN <<".">> \o PadLeft(DecStr(t.Nanosecond \div 1000000), 3, "0")
          ELSE <<>>)

\* lines 264-265: the last element of strings.Split(name, "/")
RECURSIVE LastSegment(_)
LastSegment(name) ==
    IF name = <<>> \/ name[Len(name)] = "/" THEN <<>>
    ELSE LastSegment(SubSeq(name, 1, Len(name) - 1)) \o <<name[Len(name)]>>

\* line 276: case token&tfFieldWidthMask > 0, reached when no selector matched
IsWidthToken(token) ==
    /\ token \notin {tfTime, tfTimeMilliseconds, tfName, tfBaseName, tfLevel, tfMessage}
    /\ BitAnd(token, tfFieldWidthMask) > 0

\* lines 248-275: the text s of an int token; pm is processedMessage
FieldText(token, r, pm, lineColor) ==
    CASE token = tfTimeMilliseconds -> formatTime(r.Time, TRUE)
      [] token = tfTime -> formatTime(r.Time, FALSE)
      [] token = tfName -> IF Len(r.Name) = 0 THEN sRoot ELSE r.Name
      [] token = tfBaseName -> IF Len(r.Name) = 0 THEN sRoot ELSE LastSegment(r.Name)
      [] token = tfLevel -> LevelName(r.Level)
      [] token = tfMessage ->
            IF Len(pm) > 0 THEN pm
            ELSE IF Len(r.Message) > 0 THEN defaultProcessMessage(r.Message, lineColor)
            ELSE <<>>
      [] OTHER -> <<>>

\* line 278: the alignment a width token carries
TokenAlignFmt(token) ==
    IF BitAnd(token, tfAlignRight) > 0 THEN "right" ELSE "left"

\* fmt.Sprintf("%-Ns", s) for alignFmt "left", fmt.Sprintf("%Ns", s) for "right"
Sprintf(alignFmt, width, s) ==
    IF Len(s) >= width THEN s
    ELSE IF alignFmt = "right" THEN Spaces(width - Len(s)) \o s
    ELSE s \o Spaces(width - Len(s))

\* lines 288-290
Truncate(s, width) == IF Len(s) > width THEN SubSeq(s, 1, width) ELSE s

\* lines 243-299: one round of the loop over f.formatTokens
FormatToken(st, tok, r, lineColor) ==
    IF tok.kind = "string"
    THEN [st EXCEPT !.parts = st.parts \o tok.s]
    ELSE LET s == FieldText(tok.v, r, st.processedMessage, lineColor)
             isWidth == IsWidthToken(tok.v)
             width == IF isWidth
                      THEN ShiftRight(BitAnd(tok.v, tfFieldWidthMask), tfFieldWidthShift)
                      ELSE st.width
             alignFmt == IF isWidth THEN TokenAlignFmt(tok.v) ELSE st.alignFmt
             pm == IF tok.v = tfMessage THEN s ELSE st.processedMessage
         IN  IF Len(s) > 0
             THEN IF alignFmt # ""
                  THEN [parts |-> st.parts \o Truncate(Sprintf(alignFmt, width, s), width),
                        alignFmt |-> "", width |-> 0, processedMessage |-> pm]
                  ELSE [parts |-> st.parts \o s,
                        alignFmt |-> alignFmt, width |-> width, processedMessage |-> pm]
             ELSE [parts |-> st.parts,
                   alignFmt |-> alignFmt, width |-> width, processedMessage |-> pm]

RECURSIVE FormatTokens(_, _, _, _)
FormatTokens(st, tokens, r, lineColor) ==
    IF tokens = <<>> THEN st
    ELSE FormatTokens(FormatToken(st, Head(tokens), r, lineColor), Tail(tokens), r,
                      lineColor)

\* line 221: if r.Level == NOTSET
IsNotSetNever(r) == FALSE
IsNotSet(r) == r.Level = NOTSET

\* lines 220-306: Format of record r with the given tokens and coloring
FormatWith(tokens, coloring, r) ==
    IF IsNotSet(r) THEN [out |-> <<>>, err |-> "ErrorNotSet"]
    ELSE LET colorSet == coloring[r.Level] # <<>>
             lineColor == coloring[r.Level]
             st == FormatTokens([parts |-> lineColor, alignFmt |-> "", width |-> 0,
                                 processedMessage |-> <<>>],
                                tokens, r, lineColor)
         IN  [out |-> st.parts \o (IF colorSet THEN colorReset ELSE <<>>),
              err |-> "nil"]

\* lines 212-215
GetFormat == formatString

\* ------------------------------------------------------------ inputs
\* a span {selector}, {selector<digits} or {selector>digits}
MkSpan(selector, alignment, digits) ==
    <<"{">> \o selector \o alignment \o digits \o <<"}">>

WidthTexts ==
    {<<"0">>, <<"1">>, <<"2">>, <<"5">>, <<"2", "5", "4">>, <<"2", "5", "5">>,
     <<"3", "0", "0">>, <<>>}

Directives ==
    {[a |-> <<>>, w |-> <<>>]}
      \cup {[a |-> <<x>>, w |-> d] : x \in {"<", ">"}, d \in WidthTexts}

PlainSpans ==
    {MkSpan(sel, <<>>, <<>>) :
        sel \in {sTime, sTimems, sName, sBasename, sLevel, sMessage, sBogus}}

DirectedSpans ==
    {MkSpan(sel, d.a, d.w) : sel \in {sName, sMessage}, d \in Directives}

PairSpans ==
    {MkSpan(sMessage, <<"<">>, <<"5">>), MkSpan(sMessage, <<">">>, <<"2">>),
     MkSpan(sName, <<>>, <<>>), MkSpan(sName, <<"<">>, <<"2">>),
     MkSpan(sLevel, <<>>, <<>>), MkSpan(sBogus, <<>>, <<>>)}

NoSpans == {<<>>, <<"x">>, <<"{", "}">>, <<"{", "x">>, <<"}", "{">>}

\* braces and directives in unusual places
OddSpans ==
    {<<"{">> \o MkSpan(sName, <<>>, <<>>),
     MkSpan(sName, <<>>, <<>>) \o <<"}">>,
     MkSpan(sName \o <<"<", "5">>, <<">">>, <<"2">>),
     MkSpan(<<>>, <<"<">>, <<"5">>)}

Templates ==
    PlainSpans \cup DirectedSpans
      \cup {<<"[">> \o s \o <<"]">> : s \in PlainSpans \cup DirectedSpans}
      \cup {s1 \o <<" ">> \o s2 : s1 \in PairSpans, s2 \in PairSpans}
      \cup NoSpans \cup OddSpans

InitTemplates ==
    {MkSpan(sName, <<>>, <<>>),
     MkSpan(sLevel, <<>>, <<>>) \o <<" ">> \o MkSpan(sMessage, <<>>, <<>>)}

Time0 ==
    [Year |-> 2021, Month |-> 3, Day |-> 4, Hour |-> 5, Minute |-> 6, Second |-> 7,
     Nanosecond |-> 8900000]

Records ==
    [Time : {Time0},
     Name : {<<>>, <<"a", "b", "c">>, <<"a", "/", "b">>},
     Level : FmtLevels,
     Message : {<<>>, <<"h", "i">>}]

Colorings ==
    {NilColoring, defaultLevelColoring, [NilColoring EXCEPT ![ERROR] = ColorRed],
     [NilColoring EXCEPT ![NOTSET] = ColorRed]}

NoCall == [op |-> "none", template |-> <<>>, rec |-> <<>>, err |-> "nil", out |-> <<>>]

\* the compilation of every template of the model, computed once
Compiled == [t \in Templates \cup InitTemplates |-> Compile(t)]

\* ------------------------------------------------------------ formatter calls
\* lines 42-52, for a format that compiles
NewTemplateFormatter(format) ==
    /\ Compiled[format].err = "nil"
    /\ formatString = format
    /\ formatTokens = Compiled[format].tokens
    /\ levelColoring = NilColoring
    /\ compiledFrom = format
    /\ last = NoCall

\* lines 166, 201 and 207: both error returns leave before f.formatTokens is
\* assigned
TokensAfterAlways(compiled) == compiled.tokens
TokensAfter(compiled) ==
    IF compiled.err = "nil" THEN compiled.tokens ELSE formatTokens

\* lines 156-210
SetFormat(template) ==
    /\ formatTokens' = TokensAfter(Compiled[template])
    /\ compiledFrom' = IF Compiled[template].err = "nil" THEN template ELSE compiledFrom
    /\ last' = [op |-> "SetFormat", template |-> template, rec |-> <<>>,
                err |-> Compiled[template].err, out |-> <<>>]
    /\ UNCHANGED <<formatString, levelColoring>>
    /\ UNCHANGED hvars

\* lines 220-306
Format(r) ==
    /\ last' = [op |-> "Format", template |-> <<>>, rec |-> r,
                err |-> FormatWith(formatTokens, levelColoring, r).err,
                out |-> FormatWith(formatTokens, levelColoring, r).out]
    /\ UNCHANGED <<formatString, formatTokens, levelColoring, compiledFrom>>
    /\ UNCHANGED hvars

\* lines 109-115
EnableLevelColoring(enable) ==
    /\ levelColoring' = IF enable THEN defaultLevelColoring ELSE NilColoring
    /\ last' = [NoCall EXCEPT !.op = "EnableLevelColoring"]
    /\ UNCHANGED <<formatString, formatTokens, compiledFrom>>
    /\ UNCHANGED hvars

\* lines 118-120
SetLevelColoring(levelToColors) ==
    /\ levelColoring' = levelToColors
    /\ last' = [NoCall EXCEPT !.op = "SetLevelColoring"]
    /\ UNCHANGED <<formatString, formatTokens, compiledFrom>>
    /\ UNCHANGED hvars

(***************************************************************************)
(* Specifications                                                          *)
(***************************************************************************)
Init ==
    /\ StreamHandlerInit
    /\ NewTemplateFormatter(MkSpan(sName, <<>>, <<>>))

InitWatched ==
    /\ WatchedFileHandlerInit
    /\ NewTemplateFormatter(MkSpan(sName, <<>>, <<>>))

InitFormatter ==
    /\ StreamHandlerInit
    /\ \E format \in InitTemplates : NewTemplateFormatter(format)

Next ==
    \/ \E lvl \in Levels : HandleCall(lvl)
    \/ \E rec \in sending : HandleSend(rec)
    \/ \E rec \in sending : HandlePanic(rec)
    \/ \E f \in {Nil, TF} : SetFormatter(f)
    \/ Shutdown
    \/ Committer

NextWatched ==
    \/ Next
    \/ MoveFile

\* the hook of the WatchedFileHandler called on the handler
NextReopen ==
    \/ NextWatched
    \/ CommitterWriteFails
    \/ \E openOk \in BOOLEAN : WatchedFileHandler_onPreWrite(openOk)

\* the Writer may fail
NextFailing ==
    \/ Next
    \/ CommitterWriteFails

NextFormatter ==
    \/ \E template \in Templates : SetFormat(template)
    \/ \E r \in Records : Format(r)
    \/ \E enable \in BOOLEAN : EnableLevelColoring(enable)
    \/ \E levelToColors \in Colorings : SetLevelColoring(levelToColors)

Spec == Init /\ [][Next]_vars

SpecWatched == InitWatched /\ [][NextWatched]_vars

SpecFailing == Init /\ [][NextFailing]_vars

SpecReopen == InitWatched /\ [][NextReopen]_vars

SpecFormatter == InitFormatter /\ [][NextFormatter]_vars

\* the committer goroutine keeps running, and a Shutdown call in progress goes on
FairSpec ==
    /\ Spec
    /\ WF_vars(Committer)
    /\ WF_vars(ShutdownCloseStop \/ ShutdownCloseCommit)

\* ------------------------------------------------------------ claims
SinkIds == {sink[i].id : i \in DOMAIN sink}
EnqIds == {enqLog[k].id : k \in DOMAIN enqLog}
ShutdownReturned == shutReturns >= 1

\* C1: lines are written in the order their records entered the queue: every
\* written record was enqueued, and of two written records the one enqueued
\* first is written first.
C1_WrittenInEnqueueOrder ==
    /\ SinkIds \subseteq EnqIds
    /\ \A i, j \in DOMAIN sink :
          i < j => \E k, l \in DOMAIN enqLog :
                      /\ k < l
                      /\ enqLog[k].id = sink[i].id
                      /\ enqLog[l].id = sink[j].id

\* two producers raced for the queue position, and both records were written
C1_Witness ==
    \E i, j \in DOMAIN sink : i < j /\ sink[i].id > sink[j].id

C3_NothingAfterShutdown ==
    [][ShutdownReturned => UNCHANGED <<sink, cpc, crec>>]_vars

\* C4: a record whose Handle call started after Shutdown returned: the call has
\* returned nil, and the record is neither held by a blocked or panicked
\* caller, nor enqueued, nor written.
C4_LateHandleIsNoop ==
    \A id \in lateIds :
       /\ id \in retNil
       /\ \A rec \in sending : rec.id # id
       /\ id \notin panicked
       /\ id \notin EnqIds
       /\ id \notin SinkIds

C4_Witness ==
    /\ ShutdownReturned
    /\ lateIds # {}
    /\ sending = {}
    /\ panicked = {}

\* C5: the queue never holds more than its capacity; on an active handler a
\* Handle call that finds the queue full stays blocked with its record, and a
\* Handle call that returns from its send has left its record in the queue.
C5_Backpressure ==
    /\ [](Len(CommitChannel) <= QueueCap)
    /\ [][\A rec \in sending :
            /\ (~StreamShutdown /\ Len(CommitChannel) = QueueCap) => rec \in sending'
            /\ (rec \notin sending' /\ rec.id \notin panicked')
                  => \E k \in DOMAIN CommitChannel' : CommitChannel'[k] = rec]_vars

C5_Witness ==
    /\ ~StreamShutdown
    /\ Len(CommitChannel) = QueueCap
    /\ sending # {}

\* C6: under fair scheduling a Shutdown call waiting in its handshake returns,
\* unless the committer died on a missing formatter.
C6_ShutdownReturns ==
    (spc = "send") ~> (ShutdownReturned \/ cpc = "panic")

\* Shutdown has returned on a handler that had records handed to it
C6_Witness ==
    /\ ShutdownReturned
    /\ spc = "idle"
    /\ preIds # {}
    /\ cpc # "panic"

\* C7: a Shutdown call made after one has returned is over in its first step
\* and changes neither the channels, nor the handler's fields, nor the committer.
C7_LaterShutdownIsNoop ==
    [][(ShutdownReturned /\ shutCalls' = shutCalls + 1)
         => /\ shutReturns' = shutReturns + 1
            /\ spc' = "idle"
            /\ UNCHANGED <<chanVars, fieldVars, committerVars>>]_vars

C7_Witness ==
    /\ shutCalls = 2
    /\ shutReturns = 2
    /\ spc = "idle"

\* C8: when the file at the path has been replaced since the committer's last
\* write, its next write goes to a handle opened on the file now at the path.
C8_WriteFollowsMovedFile ==
    [][(/\ sink' # sink
        /\ Len(sink) >= 1
        /\ sink[Len(sink)].id # 0
        /\ sink[Len(sink)].file # pathFile)
         => sink'[Len(sink')].file = pathFile]_vars

\* the line a record's field makes under a width directive: padded with spaces
\* on the side the directive names, then cut to its left-most w characters
ClaimedField(alignment, w, s) ==
    LET padded == IF Len(s) >= w THEN s
                  ELSE IF alignment = <<">">> THEN Spaces(w - Len(s)) \o s
                  ELSE s \o Spaces(w - Len(s))
    IN  SubSeq(padded, 1, w)

\* the text of the name and message fields
ClaimedText(selector, r) ==
    IF selector = sName THEN (IF r.Name = <<>> THEN sRoot ELSE r.Name) ELSE r.Message

\* C9: Format with the tokens of a one-span template {sel<w} or {sel>w}, w in
\* 1..254, on an uncolored record whose field text is not empty, returns that
\* text padded on the directive's side and cut to w characters.
C9_WidthDirective ==
    \A sel \in {sName, sMessage}, d \in Directives :
       ( /\ last.op = "Format"
         /\ last.err = "nil"
         /\ compiledFrom = MkSpan(sel, d.a, d.w)
         /\ d.a # <<>>
         /\ d.w # <<>>
         /\ Atoi(d.w) \in 1..254
         /\ levelColoring[last.rec.Level] = <<>>
         /\ ClaimedText(sel, last.rec) # <<>> )
       => last.out = ClaimedField(d.a, Atoi(d.w), ClaimedText(sel, last.rec))

\* C10: after a SetFormat call that returned nil, the tokens are those of its
\* template and GetFormat returns its template.
C10_SetFormatReplacesBoth ==
    (last.op = "SetFormat" /\ last.err = "nil")
       => (formatTokens = Compile(last.template).tokens /\ GetFormat = last.template)

\* C11: a SetFormat call that returns an error changes neither the token
\* sequence, nor the stored template string, nor the coloring, the three things
\* a later Format or GetFormat reads.
C11_FailedSetFormatKeepsState ==
    [][(last'.op = "SetFormat" /\ last'.err # "nil")
         => UNCHANGED <<formatTokens, formatString, levelColoring>>]_vars

\* a template whose second span is unknown was refused after another template
\* had replaced the one of construction
C11_Witness ==
    /\ last.op = "SetFormat"
    /\ last.err = "unknown format template token"
    /\ last.template = MkSpan(sName, <<>>, <<>>) \o <<" ">> \o MkSpan(sBogus, <<>>, <<>>)
    /\ compiledFrom # formatString
    /\ formatTokens = Compile(compiledFrom).tokens

\* the bracketed spans of a template, as <<first, last>>: from a "{" to the
\* first "}" after it with something in between, the leftmost "{" winning
\* among those that share the closing brace
ClaimedSpans(t) ==
    LET closes(i, j) == /\ i < j
                        /\ t[i] = "{"
                        /\ t[j] = "}"
                        /\ \A k \in (i + 1)..(j - 1) : t[k] # "}"
    IN  {ij \in (DOMAIN t) \X (DOMAIN t) :
            /\ closes(ij[1], ij[2])
            /\ ij[2] >= ij[1] + 2
            /\ \A h \in 1..(ij[1] - 1) : ~closes(h, ij[2])}

\* the selector of a span: what is between the braces, less a closing
\* directive of "<" or ">" and digits
ClaimedSelector(t, ij) ==
    LET body == SubSeq(t, ij[1] + 1, ij[2] - 1)
        cuts == {k \in 2..(Len(body) - 1) :
                    /\ body[k] \in {"<", ">"}
                    /\ \A d \in (k + 1)..Len(body) : IsDigit(body[d])}
    IN  IF cuts = {} THEN body
        ELSE SubSeq(body, 1, (CHOOSE k \in cuts : \A c \in cuts : k <= c) - 1)

ClaimedSelectors == {sTime, sTimems, sName, sBasename, sLevel, sMessage}

\* C12: SetFormat returns nil exactly for a template with at least one
\* bracketed span whose spans all have one of the six selectors; with no span
\* it returns the invalid-template error, with another selector the
\* unknown-token error.
C12_CompileSucceedsIff ==
    (last.op = "SetFormat")
       => last.err =
             IF ClaimedSpans(last.template) = {}
             THEN "invalid format template string"
             ELSE IF \E ij \in ClaimedSpans(last.template) :
                        ClaimedSelector(last.template, ij) \notin ClaimedSelectors
             THEN "unknown format template token"
             ELSE "nil"

\* a template with a brace before a valid span was refused for its selector
C12_Witness ==
    /\ last.op = "SetFormat"
    /\ last.template = <<"{">> \o MkSpan(sName, <<>>, <<>>)
    /\ last.err = "unknown format template token"

\* C13: Format on a record of level NOTSET returns no bytes and ErrorNotSet,
\* whatever the record's other fields, the tokens and the coloring.
C13_NotSetFormatsToNothing ==
    (last.op = "Format" /\ last.rec.Level = NOTSET)
       => (last.out = <<>> /\ last.err = "ErrorNotSet")

\* a NOTSET record with a name and a message was formatted under a template
\* with a literal and a coloring that has a color for NOTSET
C13_Witness ==
    /\ last.op = "Format"
    /\ last.rec.Level = NOTSET
    /\ last.rec.Name # <<>>
    /\ last.rec.Message # <<>>
    /\ levelColoring[NOTSET] # <<>>
    /\ \E k \in DOMAIN formatTokens : formatTokens[k].kind = "string"

\* C14: a Handle call can send on the closed queue, and the calls that do are
\* those that read the flag as false before a Shutdown call that has since
\* closed the queue and returned: such a call began before Shutdown returned,
\* has enqueued nothing and has not returned.
C14_SendOnClosedQueueIsTheRace ==
    \A id \in panicked :
       /\ StreamShutdown
       /\ commitClosed
       /\ ShutdownReturned
       /\ id \notin lateIds
       /\ id \notin EnqIds
       /\ id \notin retNil

\* the interleaving: one Shutdown call, and a Handle call whose send panicked
C14_Witness ==
    /\ panicked # {}
    /\ shutCalls = 1
    /\ shutReturns = 1

\* the text of a span without a directive
ClaimedPlain(selector, r) ==
    IF selector = sLevel THEN LevelName(r.Level) ELSE ClaimedText(selector, r)

\* C15: under a template of two spans with a blank between them, the second
\* span having no directive, an uncolored line ends with the blank and the
\* second field's text as it is, whatever the directive of the first span and
\* whether or not the first field rendered any text.
C15_DirectiveStaysInItsSpan ==
    \A s1 \in PairSpans, sel2 \in {sName, sLevel} :
       ( /\ last.op = "Format"
         /\ last.err = "nil"
         /\ compiledFrom = s1 \o <<" ">> \o MkSpan(sel2, <<>>, <<>>)
         /\ levelColoring[last.rec.Level] = <<>> )
       => LET tail == <<" ">> \o ClaimedPlain(sel2, last.rec)
          IN  /\ Len(last.out) >= Len(tail)
              /\ SubSeq(last.out, Len(last.out) - Len(tail) + 1, Len(last.out)) = tail

\* the width tokens of 1..254: 254 values, none of them a selector token or
\* tfAlignRight
WidthTokensApart ==
    LET values == {WidthToken(w) : w \in 1..254}
    IN  /\ Cardinality(values) = 254
        /\ values \cap {tokenToValue[sel] : sel \in DOMAIN tokenToValue} = {}
        /\ tfAlignRight \notin values

\* C16: under a one-span template {sel<w} or {sel>w} an uncolored field with
\* text comes out as that text when w is 0, the tokens being the selector
\* alone, and otherwise w characters long, 254 when w is above 254, the first
\* token decoding to that width; and the width tokens of 1..254 are distinct
\* from one another, from the six selector tokens and from tfAlignRight.
C16_WidthSurvivesEncoding ==
    /\ \A sel \in {sName, sMessage}, d \in Directives :
          ( /\ last.op = "Format"
            /\ last.err = "nil"
            /\ compiledFrom = MkSpan(sel, d.a, d.w)
            /\ d.a # <<>>
            /\ d.w # <<>>
            /\ levelColoring[last.rec.Level] = <<>>
            /\ ClaimedText(sel, last.rec) # <<>> )
          => IF Atoi(d.w) = 0
             THEN /\ last.out = ClaimedText(sel, last.rec)
                  /\ formatTokens = <<IntTok(tokenToValue[sel])>>
             ELSE /\ Len(last.out) = Min(Atoi(d.w), 254)
                  /\ ShiftRight(BitAnd(formatTokens[1].v, tfFieldWidthMask),
                                tfFieldWidthShift) = Min(Atoi(d.w), 254)
    /\ WidthTokensApart

\* a width of 255 was written, and the field came out 254 characters long
C16_Witness ==
    /\ last.op = "Format"
    /\ last.err = "nil"
    /\ compiledFrom = MkSpan(sName, <<"<">>, <<"2", "5", "5">>)
    /\ levelColoring[last.rec.Level] = <<>>
    /\ Len(last.out) = 254

AttemptIds == {attempts[i].id : i \in DOMAIN attempts}

\* C17: a record whose formatting fails is never handed to the Writer; no
\* record is handed to the Writer twice; the Writer is called in the order the
\* records were enqueued, failed writes included; and the step in which a
\* formatting or a write fails takes the committer back to its select with the
\* queue and the file as they were.
C17_FailuresDoNotStopThePipeline ==
    /\ [](\A k \in DOMAIN enqLog : FormatFails(enqLog[k]) => enqLog[k].id \notin AttemptIds)
    /\ [](\A i, j \in DOMAIN attempts :
             i < j => /\ attempts[i].id # attempts[j].id
                      /\ \E k, l \in DOMAIN enqLog :
                            /\ k < l
                            /\ enqLog[k].id = attempts[i].id
                            /\ enqLog[l].id = attempts[j].id)
    /\ [][(cpc = "format" /\ StreamFormatter # Nil /\ FormatFails(crec) /\ cpc' # "format")
            => (cpc' = "select" /\ UNCHANGED <<sink, attempts, CommitChannel>>)]_vars
    /\ [][(Len(attempts') > Len(attempts) /\ ~attempts'[Len(attempts')].ok)
            => (cpc' = "select" /\ UNCHANGED <<sink, CommitChannel>>)]_vars

\* the write of the first record failed, the second was dropped by the
\* formatter, and the third has been written
C17_Witness ==
    /\ Len(enqLog) = 3
    /\ FormatFails(enqLog[2])
    /\ attempts = <<[id |-> enqLog[1].id, ok |-> FALSE], [id |-> enqLog[3].id, ok |-> TRUE]>>
    /\ SinkIds = {enqLog[3].id}

\* C20: when the committer is about to format a record it took from the
\* queue, a formatter is installed.
C20_FormatterInstalledAtDequeue ==
    (cpc = "format" /\ crec.id # 0) => StreamFormatter # Nil

\* C18: over a reopen that succeeded (the stored identity changes) the handle
\* that was the Writer has been synced and closed, the Writer is a handle on
\* the file now at the path, and the stored identity is that file's.
C18_ReopenSwitchesToNewFile ==
    [][(devino' # devino)
         => /\ Writer \in closedFiles'
            /\ Writer' = pathFile'
            /\ devino' = pathFile']_vars

\* C19: a reopen that succeeded leaves the handler's formatter, shutdown flag,
\* queue and committer as they were, and starts no committer.
C19_ReopenKeepsTheHandler ==
    [][(devino' # devino)
         => UNCHANGED <<StreamFormatter, StreamShutdown, chanVars, committerVars,
                        committers>>]_vars

====
